---- MODULE Spec2Model ----
(***************************************************************************)
(* A model of the RAG chatbot backend: the text utilities, the document    *)
(* processor, the Gemini client, the Qdrant vector store, the RAG engine,  *)
(* the chat service and the HTTP routes.                                   *)
(*                                                                         *)
(* Texts are sequences of one-character strings.  Python values that have  *)
(* no TLA+ counterpart are encoded as follows:                             *)
(*   - Optional[str]: <<>> is None, <<s>> is the string s;                 *)
(*   - a dict is a record (a function from its keys), {} is <<>>;          *)
(*   - str(uuid.uuid4()) is the n-th fresh identifier, Uuid(n);            *)
(*   - a file name is the sequence of its '.'-separated segments;          *)
(*   - an embedding vector is a record that names the text it was          *)
(*     computed from, its task type and its length;                        *)
(*   - an exception in flight is a record [cls, msg, status, context].     *)
(* An async handler runs on one event loop and none of the coroutines it   *)
(* awaits suspends (the Gemini and Qdrant clients are called              *)
(* synchronously), so one request is in flight at a time; the steps of a   *)
(* handler are separate actions.                                           *)
(***************************************************************************)
EXTENDS Integers, Sequences, FiniteSets, TLC

(***************************************************************************)
(* Bounds of the model.                                                    *)
(***************************************************************************)
\* requests served in one behaviour
MaxRequests == 2
\* the scale of the texts: one character of the model stands for TextScale
\* characters of a document, and the lengths that chunk_text works with are
\* divided by it
TextScale == 50
\* chunk_text called on its own: the scale of its texts, the longest text,
\* the largest chunk_size and the most iterations of its loop that are
\* followed
ChunkScale == 25
MaxTextLen == 5
MaxChunkSize == 5
MaxWindows == 7
\* the processes that construct a VectorStore against one Qdrant server
NumConstructors == 3
\* the upload requests that are followed side by side
NumTasks == 2
\* the length of a vector of another embedding model: any length but
\* EMBEDDING_DIMENSION stands for "a vector of the wrong dimensionality"
WrongDimension == 768

(***************************************************************************)
(* Program constants.                                                      *)
(***************************************************************************)
\* app/config.py: EMBEDDING_DIMENSION
EMBEDDING_DIMENSION == 3072
\* app/config.py: TOP_K_RESULTS
TOP_K_RESULTS == 5
\* app/core/rag_engine.py: the default of query's parameter top_k
QueryDefaultTopK == 5
\* app/core/document_processor.py: chunk_text(text, chunk_size=1000, overlap=200)
ChunkSizeChars == 1000
OverlapChars == 200
\* app/utils/text_utils.py: the sentence search looks at text[end - 100 : end]
MarginChars == 100
\* app/config.py: MAX_FILE_SIZE_MB
MAX_FILE_SIZE_MB == 10
\* app/models/chat.py: ChatRequest.message, Field(min_length=1, max_length=5000)
MessageMinLength == 1
MessageMaxLength == 5000

\* the length of the text of the spec's chunking scenario
ScenarioChars == 2500

\* the same lengths in characters of the model
DocChunkSize == ChunkSizeChars \div TextScale
DocOverlap == OverlapChars \div TextScale
SentenceMargin == MarginChars \div TextScale

(***************************************************************************)
(* Generic helpers.                                                        *)
(***************************************************************************)
Min(a, b) == IF a < b THEN a ELSE b
Max(a, b) == IF a > b THEN a ELSE b
SetMax(S) == CHOOSE x \in S : \A y \in S : y <= x
SetMin(S) == CHOOSE x \in S : \A y \in S : x <= y
Range(s) == {s[i] : i \in DOMAIN s}
Rep(c, n) == [i \in 1..n |-> c]
NoDuplicates(s) == \A i, j \in DOMAIN s : i # j => s[i] # s[j]

(***************************************************************************)
(* Characters.                                                             *)
(***************************************************************************)
Whitespace == {" ", "\n", "\t"}
WordChars == {"a", "b", "c"}
\* the punctuation kept by clean_text: . , ! ? ; : ( ) - '
KeptPunctuation == {".", ",", "!", "?", ";", ":", "(", ")", "-", "'"}
IsSpace(c) == c \in Whitespace

(***************************************************************************)
(* Python's str methods and slices, on sequences of characters.  Python's  *)
(* indices are 0-based; a negative index counts from the end, and indices  *)
(* are clipped to the length.                                              *)
(***************************************************************************)
PyIndex(n, i) == IF i < 0 THEN Max(n + i, 0) ELSE Min(i, n)

\* text[lo:hi]
PySlice(text, lo, hi) ==
    LET a == PyIndex(Len(text), lo)
        b == PyIndex(Len(text), hi)
    IN  IF a < b THEN SubSeq(text, a + 1, b) ELSE <<>>

\* text.rfind(c, lo, hi): the highest 0-based index of c in text[lo:hi], or -1
PyRFind(text, c, lo, hi) ==
    LET a == PyIndex(Len(text), lo)
        b == PyIndex(Len(text), hi)
        hits == {i \in a..(b - 1) : text[i + 1] = c}
    IN  IF hits = {} THEN -1 ELSE SetMax(hits)

\* text.strip()
PyStrip(text) ==
    LET solid == {i \in DOMAIN text : ~IsSpace(text[i])}
    IN  IF solid = {} THEN <<>> ELSE SubSeq(text, SetMin(solid), SetMax(solid))

\* max(a, b, c)
Max3(a, b, c) == Max(a, Max(b, c))

(***************************************************************************)
(* app/utils/text_utils.py                                                 *)
(***************************************************************************)
\* re.sub(r'\s+', ' ', text): every maximal run of whitespace becomes one ' '
CollapseWhitespace(text) ==
    LET marked == [i \in DOMAIN text |->
                     [c |-> IF IsSpace(text[i]) THEN " " ELSE text[i],
                      keep |-> ~(IsSpace(text[i]) /\ i > 1 /\ IsSpace(text[i - 1]))]]
        kept == SelectSeq(marked, LAMBDA m : m.keep)
    IN  [i \in DOMAIN kept |-> kept[i].c]

\* re.sub(r'[^\w\s.,!?;:()\-\']', '', text)
RemoveSpecial(text) ==
    SelectSeq(text, LAMBDA c : c \in WordChars \cup Whitespace \cup KeptPunctuation)

clean_text(text) == PyStrip(RemoveSpecial(CollapseWhitespace(text)))

\* lines 40-51 with the 100 of lines 45-47 as a parameter: the end of the
\* window that starts at start
SentenceEnd(text, chunk_size, start, margin) ==
    LET end == start + chunk_size
        last_period == PyRFind(text, ".", end - margin, end)
        last_question == PyRFind(text, "?", end - margin, end)
        last_exclamation == PyRFind(text, "!", end - margin, end)
        break_point == Max3(last_period, last_question, last_exclamation)
    IN  IF end < Len(text) /\ break_point > start THEN break_point + 1 ELSE end

\* the end of the window that starts at start: start + chunk_size, moved to
\* just after the last sentence end of its last 100 characters when the
\* window does not reach the end of the text
WindowEnd(text, chunk_size, start) ==
    SentenceEnd(text, chunk_size, start, SentenceMargin)

\* one iteration of the while loop: the chunks after it
WindowChunks(text, chunk_size, start, chunks) ==
    LET chunk == PyStrip(PySlice(text, start, WindowEnd(text, chunk_size, start)))
    IN  IF chunk # <<>> THEN Append(chunks, chunk) ELSE chunks

\* one iteration of the while loop: the next start
WindowNext(text, chunk_size, overlap, start) ==
    WindowEnd(text, chunk_size, start) - overlap

RECURSIVE ChunkLoop(_, _, _, _, _)
ChunkLoop(text, chunk_size, overlap, start, chunks) ==
    IF start < Len(text)
    THEN ChunkLoop(text, chunk_size, overlap,
                   WindowNext(text, chunk_size, overlap, start),
                   WindowChunks(text, chunk_size, start, chunks))
    ELSE chunks

chunk_text(text, chunk_size, overlap) ==
    IF Len(text) <= chunk_size
    THEN <<text>>
    ELSE ChunkLoop(text, chunk_size, overlap, 0, <<>>)

(***************************************************************************)
(* Values.                                                                 *)
(***************************************************************************)
None == <<>>
Some(v) == <<v>>
IsNone(opt) == opt = <<>>
Get(opt) == opt[1]
EmptyDict == <<>>
Last(s) == s[Len(s)]

\* str(uuid.uuid4()): the n-th identifier drawn; two draws never collide
Uuid(n) == "uuid" \o ToString(n)

\* str.lower() on the file type strings of the model
PyLower(s) ==
    CASE s = "TXT" -> "txt"
      [] s = "PDF" -> "pdf"
      [] OTHER -> s

RECURSIVE JoinDots(_)
\* '.'.join(segments): the file name whose split('.') is segments
JoinDots(segments) ==
    IF Len(segments) = 1
    THEN segments[1]
    ELSE JoinDots(SubSeq(segments, 1, Len(segments) - 1)) \o "." \o Last(segments)

\* an exception in flight; status is the status_code of an HTTPException and
\* context is the exception that was being handled when this one was raised
\* (Python's __context__)
Raise(cls, msg) == [cls |-> cls, msg |-> msg, status |-> 0, context |-> None]
HTTPException(status_code, detail) ==
    [cls |-> "HTTPException", msg |-> detail, status |-> status_code, context |-> None]
\* raise Exception(msg) inside "except Exception as e"
RaiseFrom(cls, msg, e) == [cls |-> cls, msg |-> msg, status |-> 0, context |-> Some(e)]
\* str(e)
StrExc(e) ==
    IF e.cls = "HTTPException" THEN ToString(e.status) \o ": " \o e.msg ELSE e.msg

\* what an external collaborator (Gemini, Qdrant, the OS) reports when it fails
InternalErrors == {"quota exceeded for key AIza", "connection timed out"}

(***************************************************************************)
(* The inputs of the model.                                                *)
(***************************************************************************)
\* the text of a two-chunk document, of a three-chunk document with a
\* sentence end near the first cut, of a short one and of a blank one
TextTwo == Rep("a", 21)
TextThree == Rep("b", 18) \o <<".", " ", "\n">> \o Rep("c", 14)
TextShort == <<" ", "a", "b", ".", " ", "#", "\n", "\n", "c", "?", " ">>
TextBlank == <<" ", "#", "\n">>

\* an UploadFile: its filename (the '.'-separated segments), the number of
\* bytes read from it and the text its extractor finds in it
UploadFiles ==
    { [filename |-> <<"report", "txt">>, size |-> 1050, text |-> TextTwo],
      [filename |-> <<"report", "txt">>, size |-> 3, text |-> TextBlank],
      [filename |-> <<"paper", "v2", "PDF">>, size |-> 90000, text |-> TextThree],
      [filename |-> <<"scan", "pdf">>, size |-> 11 * 1024 * 1024, text |-> TextShort],
      [filename |-> <<"txt">>, size |-> 11, text |-> TextShort],
      [filename |-> <<"tool", "exe">>, size |-> 11, text |-> TextShort] }

Messages == {"What is X?", "What changed last?"}

RECURSIVE PyRepeat(_, _)
\* c * n, for a string c
PyRepeat(c, n) ==
    IF n = 0
    THEN ""
    ELSE IF n % 2 = 0
    THEN LET half == PyRepeat(c, n \div 2) IN half \o half
    ELSE c \o PyRepeat(c, n - 1)

\* messages outside the lengths ChatRequest allows
LongMessage == PyRepeat("x", MessageMaxLength + 1)
InvalidMessages == {"", LongMessage}

\* the message field of the form of /chat-with-file
FormMessages == {"What is X?", "", LongMessage}
\* its file field: absent, a document of two chunks, a file that is refused
FormFiles ==
    {None}
    \cup {Some(f) : f \in {u \in UploadFiles :
                              \/ u.text = TextTwo
                              \/ u.filename = <<"tool", "exe">>}}
ConversationIds == {None, Some(""), Some("abc123")}

\* an entry another writer left in the shared collection: its payload has
\* no filename
ForeignPoint ==
    [id |-> "foreign-1",
     vector |-> [src |-> <<"c">>, task |-> "retrieval_document",
                 len |-> EMBEDDING_DIMENSION],
     payload |-> [text |-> <<"c">>]]

(***************************************************************************)
(* The state.                                                              *)
(***************************************************************************)
VARIABLES
    files,            \* the paths that exist in UPLOAD_DIR
    collection,       \* the points of the Qdrant collection, oldest first
    uuids,            \* how many uuid4 values have been drawn
    nreq,             \* how many requests have been started
    pc,               \* where the request in flight is
    request,          \* the request in flight
    file_path,        \* handle_file_upload: Optional path of the saved file
    chunks,           \* process_and_store_document: chunks
    base_metadata,    \* process_and_store_document: base_metadata
    embeddings,       \* process_and_store_document: embeddings
    conversation_id,  \* query: conversation_id
    query_embedding,  \* query: Optional query_embedding
    search_results,   \* query: search_results
    exc,              \* Optional exception in flight
    result,           \* Optional value returned to the route
    response,         \* Optional HTTP response of the request
    calls,            \* history: the collaborator calls of the request in flight
    collection0,      \* history: the collection when the request started
    chunker,          \* a call of chunk_text on its own: arguments, locals, position
    startup,          \* the Qdrant server's collections and the VectorStore()
                      \* constructors that run against it
    settings,         \* app/config.py: settings = Settings(), read from the
                      \* environment when the module is imported
    tasks             \* the upload requests that are handled side by side:
                      \* the locals and the position of each

\* what the requests of the service leave alone: chunk_text called for its
\* own sake, the constructors, which run before the first request, and the
\* settings, and the requests that are followed side by side
aside == <<chunker, startup, settings, tasks>>

vars == <<files, collection, uuids, nreq, pc, request, file_path, chunks,
          base_metadata, embeddings, conversation_id, query_embedding,
          search_results, exc, result, response, calls, collection0, aside>>

locals == <<file_path, chunks, base_metadata, embeddings, conversation_id,
            query_embedding, search_results>>

\* the variables of the request handlers
service == <<files, collection, uuids, nreq, pc, request, locals, exc, result,
             response, calls, collection0>>

\* no call of chunk_text on its own is under way
ChunkerIdle ==
    [pc |-> "idle", text |-> <<>>, chunk_size |-> 0, overlap |-> 0,
     start |-> 0, chunks |-> <<>>, windows |-> <<>>]

\* the module-level VectorStore() has run: the collection exists
StartupDone ==
    [collection_names |-> {"RAG-ChatBot"}, created |-> 1, pc |-> <<>>,
     collection_names_seen |-> <<>>, exc |-> <<>>]

\* the state of the service before its first request
ServiceInit ==
    /\ files = {}
    /\ collection \in {<<>>, <<ForeignPoint>>}
    /\ uuids = 0
    /\ nreq = 0
    /\ pc = "idle"
    /\ request = [endpoint |-> "none"]
    /\ file_path = None
    /\ chunks = <<>>
    /\ base_metadata = EmptyDict
    /\ embeddings = <<>>
    /\ conversation_id = None
    /\ query_embedding = None
    /\ search_results = <<>>
    /\ exc = None
    /\ result = None
    /\ response = None
    /\ calls = <<>>
    /\ collection0 = collection

\* the settings when the environment sets none of them
DefaultSettings == [TOP_K_RESULTS |-> TOP_K_RESULTS]

Init ==
    /\ ServiceInit
    /\ chunker = ChunkerIdle
    /\ startup = StartupDone
    /\ settings = DefaultSettings
    /\ tasks = <<>>

\* a call of a collaborator: what was called, with what, and whether it
\* returned (ok) or raised
Call(op, arg, ok) == [op |-> op, arg |-> arg, ok |-> ok]

\* a request arrives: the locals of the previous one are gone. The routes
\* repeat the first guard, so that each builds its request when it is taken
Begin(req, first) ==
    /\ pc \in {"idle", "done"}
    /\ nreq < MaxRequests
    /\ nreq' = nreq + 1
    /\ request' = req
    /\ pc' = first
    /\ file_path' = None
    /\ chunks' = <<>>
    /\ base_metadata' = EmptyDict
    /\ embeddings' = <<>>
    /\ conversation_id' = None
    /\ query_embedding' = None
    /\ search_results' = <<>>
    /\ exc' = None
    /\ result' = None
    /\ response' = None
    /\ calls' = <<>>
    /\ collection0' = collection
    /\ UNCHANGED <<files, collection, uuids, aside>>

(***************************************************************************)
(* app/utils/file_utils.py                                                 *)
(***************************************************************************)
\* settings.allowed_file_types_list
allowed_file_types_list == {"pdf", "xlsx", "xls", "txt", "png", "jpg", "jpeg"}
\* settings.max_file_size_bytes
max_file_size_bytes == MAX_FILE_SIZE_MB * 1024 * 1024

\* ext = filename.split('.')[-1].lower(); ext in the allowed list
validate_file_type(filename) == PyLower(Last(filename)) \in allowed_file_types_list

validate_file_size(file_size) == file_size <= max_file_size_bytes

\* a variant that saves the file under its original name alone
UploadPath_OriginalName(uid, filename) == [dir |-> "uploads", uid |-> "", name |-> filename]

\* os.path.join(settings.UPLOAD_DIR, f"{uuid.uuid4()}_{upload_file.filename}")
UploadPath(uid, filename) == [dir |-> "uploads", uid |-> uid, name |-> filename]

\* os.path.basename(file_path)
Basename(path) == path.uid \o "_" \o JoinDots(path.name)

\* file_path.split('.')[-1]: neither the directory nor the uuid holds a '.'
PathLastSegment(path) ==
    IF Len(path.name) > 1
    THEN Last(path.name)
    ELSE path.dir \o "/" \o Basename(path)

\* delete_file(file_path): os.remove is attempted when the file exists, and
\* an OSError of os.remove is logged and swallowed; removed tells whether
\* os.remove succeeded
delete_file(path, removed) ==
    /\ files' = IF path \in files /\ removed THEN files \ {path} ELSE files
    /\ calls' = Append(calls, Call("delete_file", path, path \in files => removed))

\* save_upload_file(upload_file), called by handle_file_upload; written
\* tells whether open() and write() succeeded
save_upload_file ==
    /\ pc = "save_upload_file"
    /\ \E written \in BOOLEAN :
         LET upload_file == request.file
             path == UploadPath(Uuid(uuids + 1), upload_file.filename)
         IN  IF ~validate_file_type(upload_file.filename)
             THEN /\ written
                  /\ exc' = Some(HTTPException(400, "File type not allowed"))
                  /\ pc' = "handle_file_upload_except"
                  /\ UNCHANGED <<files, uuids, file_path>>
             ELSE IF ~validate_file_size(upload_file.size)
             THEN /\ written
                  /\ exc' = Some(HTTPException(400, "File too large"))
                  /\ pc' = "handle_file_upload_except"
                  /\ UNCHANGED <<files, uuids, file_path>>
             ELSE /\ uuids' = uuids + 1
                  /\ IF written
                     THEN /\ files' = files \cup {path}
                          /\ file_path' = Some(path)
                          /\ pc' = "process_document"
                          /\ exc' = None
                     ELSE /\ exc' = Some(HTTPException(500, "Error saving file"))
                          /\ pc' = "handle_file_upload_except"
                          /\ UNCHANGED <<files, file_path>>
    /\ UNCHANGED <<collection, nreq, request, chunks, base_metadata, embeddings,
                   conversation_id, query_embedding, search_results, result,
                   response, calls, collection0, aside>>

(***************************************************************************)
(* app/core/document_processor.py                                          *)
(***************************************************************************)
\* the keys of DocumentProcessor.supported_types
supported_types == {"pdf", "txt", "xlsx", "xls", "png", "jpg", "jpeg"}

\* _process_pdf, _process_txt, _process_excel, _process_image: the text of
\* the file, or the ValueError raised; failure is what went wrong inside
\* the extractor (None when nothing did).  Reading a text file falls back
\* to latin-1 and does not fail on its content; OCR that finds no text is
\* an error of _process_image.
ExtractorName(file_ext) ==
    CASE file_ext = "pdf" -> "PDF"
      [] file_ext \in {"xlsx", "xls"} -> "Excel file"
      [] OTHER -> "image"

Extract(file_ext, text, failure) ==
    IF file_ext = "txt"
    THEN [ok |-> TRUE, text |-> text]
    ELSE IF ~IsNone(failure)
    THEN [ok |-> FALSE,
          exc |-> Raise("ValueError", "Failed to process " \o ExtractorName(file_ext)
                                       \o ": " \o Get(failure))]
    ELSE IF file_ext \in {"png", "jpg", "jpeg"} /\ PyStrip(text) = <<>>
    THEN [ok |-> FALSE,
          exc |-> Raise("ValueError",
                        "Failed to process image: No text could be extracted from image")]
    ELSE [ok |-> TRUE, text |-> text]

\* 'total_chunks': len(chunks)
TotalChunks(doc_chunks) == Len(doc_chunks)

\* DocumentProcessor.process_document(file_path): [ok, chunks, metadata] or
\* [ok, exc]; stored is the text the extractor finds in the file
ProcessDocument(path, stored, failure) ==
    LET file_ext == PyLower(PathLastSegment(path))
        filename == Basename(path)
        extracted == Extract(file_ext, stored, failure)
        text == clean_text(extracted.text)
        doc_chunks == chunk_text(text, DocChunkSize, DocOverlap)
    IN  IF file_ext \notin supported_types
        THEN [ok |-> FALSE,
              exc |-> Raise("ValueError", "Unsupported file type: " \o file_ext)]
        ELSE IF ~extracted.ok
        THEN [ok |-> FALSE, exc |-> extracted.exc]
        ELSE IF PyStrip(text) = <<>>
        THEN [ok |-> FALSE,
              exc |-> Raise("ValueError", "No text could be extracted from document")]
        ELSE [ok |-> TRUE,
              chunks |-> doc_chunks,
              metadata |-> [filename |-> filename,
                            file_type |-> file_ext,
                            total_chunks |-> TotalChunks(doc_chunks)]]

(***************************************************************************)
(* app/core/rag_engine.py: process_and_store_document                      *)
(***************************************************************************)
\* lines 32-35: process_document, then "if not chunks"
process_document ==
    /\ pc = "process_document"
    /\ \E failure \in {None} \cup {Some(m) : m \in InternalErrors} :
         LET path == Get(file_path)
             doc == ProcessDocument(path, request.file.text, failure)
         IN  /\ IsNone(failure) \/ PyLower(PathLastSegment(path)) \in supported_types \ {"txt"}
             /\ IF ~doc.ok
                THEN /\ exc' = Some(doc.exc)
                     /\ pc' = "process_and_store_document_except"
                     /\ UNCHANGED <<chunks, base_metadata>>
                ELSE IF doc.chunks = <<>>
                THEN /\ exc' = Some(Raise("ValueError",
                                          "No text chunks extracted from document"))
                     /\ pc' = "process_and_store_document_except"
                     /\ UNCHANGED <<chunks, base_metadata>>
                ELSE /\ chunks' = doc.chunks
                     /\ base_metadata' = doc.metadata
                     /\ pc' = "generate_embeddings"
                     /\ exc' = None
    /\ UNCHANGED <<files, collection, uuids, nreq, request, file_path, embeddings,
                   conversation_id, query_embedding, search_results, result,
                   response, calls, collection0, aside>>

(***************************************************************************)
(* app/core/llm_client.py                                                  *)
(***************************************************************************)
\* what genai.embed_content does: it raises, or it returns a vector of some
\* length
EmbedOutcomes ==
    {[raised |-> TRUE, msg |-> m, len |-> 0] : m \in InternalErrors}
    \cup {[raised |-> FALSE, msg |-> "", len |-> n] :
            n \in {EMBEDDING_DIMENSION, WrongDimension}}

\* the vector genai.embed_content(content=text, task_type=task) returns: a
\* function of the text and the task type, of some length
Vector(text, task, len) == [src |-> text, task |-> task, len |-> len]

\* generate_embeddings(text): result['embedding'], or the exception raised
GenerateEmbeddings(text, outcome) ==
    IF outcome.raised
    THEN [ok |-> FALSE,
          exc |-> Raise("Exception", "Failed to generate embeddings: " \o outcome.msg)]
    ELSE [ok |-> TRUE, embedding |-> Vector(text, "retrieval_document", outcome.len)]

\* generate_query_embedding(query)
GenerateQueryEmbedding(query, outcome) ==
    IF outcome.raised
    THEN [ok |-> FALSE,
          exc |-> Raise("Exception",
                        "Failed to generate query embeddings: " \o outcome.msg)]
    ELSE [ok |-> TRUE, embedding |-> Vector(query, "retrieval_query", outcome.len)]

\* a variant that swallows a failed embedding call and goes on with a vector
\* of its own
generate_embeddings_SkipFailed ==
    /\ pc = "generate_embeddings"
    /\ \E outcome \in EmbedOutcomes :
         LET chunk == chunks[Len(embeddings) + 1]
             got == GenerateEmbeddings(chunk, outcome)
         IN  /\ calls' = Append(calls, Call("embed_content",
                                            [task |-> "retrieval_document",
                                             chunk |-> Len(embeddings) + 1],
                                            got.ok))
             /\ embeddings' = Append(embeddings,
                                     IF got.ok
                                     THEN got.embedding
                                     ELSE Vector(chunk, "retrieval_document",
                                                 EMBEDDING_DIMENSION))
             /\ pc' = IF Len(embeddings) + 1 = Len(chunks)
                      THEN "add_documents"
                      ELSE "generate_embeddings"
             /\ exc' = None
    /\ UNCHANGED <<files, collection, uuids, nreq, request, file_path, chunks,
                   base_metadata, conversation_id, query_embedding, search_results,
                   result, response, collection0, aside>>

\* a variant that hands over to add_documents after the first embedding
generate_embeddings_StopEarly ==
    /\ pc = "generate_embeddings"
    /\ \E outcome \in EmbedOutcomes :
         LET chunk == chunks[Len(embeddings) + 1]
             got == GenerateEmbeddings(chunk, outcome)
         IN  /\ calls' = Append(calls, Call("embed_content",
                                            [task |-> "retrieval_document",
                                             chunk |-> Len(embeddings) + 1],
                                            got.ok))
             /\ IF got.ok
                THEN /\ embeddings' = Append(embeddings, got.embedding)
                     /\ pc' = "add_documents"
                     /\ exc' = None
                ELSE /\ exc' = Some(got.exc)
                     /\ pc' = "process_and_store_document_except"
                     /\ UNCHANGED embeddings
    /\ UNCHANGED <<files, collection, uuids, nreq, request, file_path, chunks,
                   base_metadata, conversation_id, query_embedding, search_results,
                   result, response, collection0, aside>>

\* rag_engine.py lines 39-42: one iteration of "for chunk in chunks"
generate_embeddings ==
    /\ pc = "generate_embeddings"
    /\ \E outcome \in EmbedOutcomes :
         LET chunk == chunks[Len(embeddings) + 1]
             got == GenerateEmbeddings(chunk, outcome)
         IN  /\ calls' = Append(calls, Call("embed_content",
                                            [task |-> "retrieval_document",
                                             chunk |-> Len(embeddings) + 1],
                                            got.ok))
             /\ IF got.ok
                THEN /\ embeddings' = Append(embeddings, got.embedding)
                     /\ pc' = IF Len(embeddings) + 1 = Len(chunks)
                              THEN "add_documents"
                              ELSE "generate_embeddings"
                     /\ exc' = None
                ELSE /\ exc' = Some(got.exc)
                     /\ pc' = "process_and_store_document_except"
                     /\ UNCHANGED embeddings
    /\ UNCHANGED <<files, collection, uuids, nreq, request, file_path, chunks,
                   base_metadata, conversation_id, query_embedding, search_results,
                   result, response, collection0, aside>>

(***************************************************************************)
(* app/core/vector_store.py                                                *)
(***************************************************************************)
\* what Qdrant does with a vector whose length is not the collection's:
\* it rejects the request
VectorFits(vector) == vector.len = EMBEDDING_DIMENSION

\* a variant that numbers the chunks from 1
ChunkIndex_OneBased(i) == i

\* rag_engine.py lines 45-49: chunk_metadata['chunk_index'] = i, 0-based
ChunkIndex(i) == i - 1

\* rag_engine.py lines 45-49: metadata_list, one copy of base_metadata per chunk
MetadataList(doc_chunks, base) ==
    [i \in DOMAIN doc_chunks |->
        [filename |-> base.filename,
         file_type |-> base.file_type,
         total_chunks |-> base.total_chunks,
         chunk_index |-> ChunkIndex(i)]]

\* zip(texts, embeddings, metadata) stops at the shortest of the three
ZipLen(texts, embs, metadata) == Min(Len(texts), Min(Len(embs), Len(metadata)))

\* add_documents lines 80-96: the PointStructs; first is the number of uuids
\* drawn before
Points(texts, embs, metadata, first) ==
    [i \in 1..ZipLen(texts, embs, metadata) |->
        [id |-> Uuid(first + i),
         vector |-> embs[i],
         payload |-> [text |-> texts[i],
                      timestamp |-> "utcnow",
                      filename |-> metadata[i].filename,
                      file_type |-> metadata[i].file_type,
                      total_chunks |-> metadata[i].total_chunks,
                      chunk_index |-> metadata[i].chunk_index]]]

\* rag_engine.py lines 44-56 and add_documents: the metadata, the points and
\* one client.upsert
add_documents ==
    /\ pc = "add_documents"
    /\ \E failure \in {None} \cup {Some(m) : m \in InternalErrors} :
         LET metadata_list == MetadataList(chunks, base_metadata)
             points == Points(chunks, embeddings, metadata_list, uuids)
             rejected == \E i \in DOMAIN points : ~VectorFits(points[i].vector)
         IN  /\ uuids' = uuids + Len(points)
             /\ calls' = Append(calls, Call("upsert", points,
                                            ~rejected /\ IsNone(failure)))
             /\ IF rejected
                THEN /\ failure = None
                     /\ exc' = Some(Raise("UnexpectedResponse",
                                          "Wrong input: Vector dimension error"))
                     /\ pc' = "process_and_store_document_except"
                     /\ UNCHANGED <<collection, result>>
                ELSE IF ~IsNone(failure)
                THEN /\ exc' = Some(Raise("ResponseHandlingException", Get(failure)))
                     /\ pc' = "process_and_store_document_except"
                     /\ UNCHANGED <<collection, result>>
                ELSE /\ collection' = collection \o points
                     /\ result' = Some([document_ids |->
                                          [i \in DOMAIN points |-> points[i].id]])
                     /\ pc' = "process_and_store_document_return"
                     /\ exc' = None
    /\ UNCHANGED <<files, nreq, request, file_path, chunks, base_metadata,
                   embeddings, conversation_id, query_embedding, search_results,
                   response, collection0, aside>>

\* handle_file_upload returns what process_and_store_document returned, to
\* the route that called it
HandleFileUploadReturnsTo ==
    IF request.endpoint = "/upload"
    THEN "upload_document_return"
    ELSE "chat_with_file_handle_chat_message"

\* rag_engine.py lines 58-69: delete_file(file_path), then the result
process_and_store_document_return ==
    /\ pc = "process_and_store_document_return"
    /\ \E removed \in BOOLEAN : delete_file(Get(file_path), removed)
    /\ result' = Some([success |-> TRUE,
                       message |-> "Document processed and stored successfully",
                       document_ids |-> Get(result).document_ids,
                       filename |-> base_metadata.filename,
                       chunks_count |-> Len(chunks)])
    /\ pc' = HandleFileUploadReturnsTo
    /\ UNCHANGED <<collection, uuids, nreq, request, file_path, chunks,
                   base_metadata, embeddings, conversation_id, query_embedding,
                   search_results, exc, response, collection0, aside>>

\* a variant whose except clause re-raises without deleting the file
process_and_store_document_except_NoCleanup ==
    /\ pc = "process_and_store_document_except"
    /\ pc' = "handle_file_upload_except"
    /\ UNCHANGED <<files, collection, uuids, nreq, request, locals, exc, result,
                   response, calls, collection0, aside>>

\* rag_engine.py lines 71-75: except Exception: delete_file(file_path); raise
process_and_store_document_except ==
    /\ pc = "process_and_store_document_except"
    /\ \E removed \in BOOLEAN : delete_file(Get(file_path), removed)
    /\ pc' = "handle_file_upload_except"
    /\ UNCHANGED <<collection, uuids, nreq, request, file_path, chunks,
                   base_metadata, embeddings, conversation_id, query_embedding,
                   search_results, exc, result, response, collection0, aside>>

(***************************************************************************)
(* app/services/chat_service.py and app/api/routes/chat.py: upload         *)
(***************************************************************************)
\* a variant in which chat_with_file goes on to the chat message after a
\* failed upload
handle_file_upload_except_GoOn ==
    /\ pc = "handle_file_upload_except"
    /\ exc' = IF request.endpoint = "/upload"
              THEN Some(RaiseFrom("Exception",
                                  "Failed to process file: " \o StrExc(Get(exc)),
                                  Get(exc)))
              ELSE None
    /\ pc' = IF request.endpoint = "/upload"
             THEN "upload_document_except"
             ELSE "chat_with_file_handle_chat_message"
    /\ UNCHANGED <<files, collection, uuids, nreq, request, locals, result,
                   response, calls, collection0, aside>>

\* handle_file_upload lines 66-68: every exception becomes a plain Exception
handle_file_upload_except ==
    /\ pc = "handle_file_upload_except"
    /\ exc' = Some(RaiseFrom("Exception",
                              "Failed to process file: " \o StrExc(Get(exc)), Get(exc)))
    /\ pc' = IF request.endpoint = "/upload"
             THEN "upload_document_except"
             ELSE "chat_with_file_except"
    /\ UNCHANGED <<files, collection, uuids, nreq, request, locals, result,
                   response, calls, collection0, aside>>

\* the except clauses of upload_document: ValueError is a 400, the rest a 500
UploadErrorResponse(e) ==
    IF e.cls = "ValueError"
    THEN [status |-> 400, detail |-> StrExc(e)]
    ELSE [status |-> 500, detail |-> "Failed to process document: " \o StrExc(e)]

upload_document_except ==
    /\ pc = "upload_document_except"
    /\ response' = Some(UploadErrorResponse(Get(exc)))
    /\ pc' = "done"
    /\ UNCHANGED <<files, collection, uuids, nreq, request, locals, exc, result,
                   calls, collection0, aside>>

\* upload_document lines 71-78: the DocumentUploadResponse
upload_document_return ==
    /\ pc = "upload_document_return"
    /\ response' = Some([status |-> 200,
                         success |-> Get(result).success,
                         message |-> Get(result).message,
                         document_id |-> Get(result).document_ids[1],
                         filename |-> Get(result).filename])
    /\ pc' = "done"
    /\ UNCHANGED <<files, collection, uuids, nreq, request, locals, exc, result,
                   calls, collection0, aside>>

\* POST /upload
upload_document ==
    /\ pc \in {"idle", "done"}
    /\ \E file \in UploadFiles :
          Begin([endpoint |-> "/upload", file |-> file], "save_upload_file")

(***************************************************************************)
(* app/core/vector_store.py: search and get_collection_info                *)
(***************************************************************************)
Reverse(s) == [i \in DOMAIN s |-> s[Len(s) + 1 - i]]

\* the points of the collection by descending similarity to the query: the
\* similarity is Qdrant's; here one query ranks the newest point first and
\* the other the oldest
Ranked(query_vector, points) ==
    IF query_vector.src = "What changed last?" THEN Reverse(points) ELSE points

\* client.search(query_vector, limit): the limit best points, with scores
ClientSearch(query_vector, limit, points) ==
    LET ranked == Ranked(query_vector, points)
    IN  [i \in 1..Min(limit, Len(ranked)) |->
            [id |-> ranked[i].id, score |-> 100 - i, payload |-> ranked[i].payload]]

\* payload.get('text', '') and the payload without its 'text'
FormatResult(hit) ==
    [id |-> hit.id,
     score |-> hit.score,
     text |-> IF "text" \in DOMAIN hit.payload THEN hit.payload.text ELSE <<>>,
     metadata |-> [k \in DOMAIN hit.payload \ {"text"} |-> hit.payload[k]]]

\* VectorStore.search lines 117-118: the limit is the top_k it was given,
\* and settings.TOP_K_RESULTS when it was given None
SearchLimit(top_k) == IF IsNone(top_k) THEN settings.TOP_K_RESULTS ELSE Get(top_k)

\* VectorStore.search(query_embedding, top_k) lines 131-149
Search(query_vector, top_k, points) ==
    LET hits == ClientSearch(query_vector, top_k, points)
    IN  [i \in DOMAIN hits |-> FormatResult(hits[i])]

\* VectorStore.get_collection_info(): the dict, or {} when client.get_collection
\* raised
GetCollectionInfo(points, failed) ==
    IF failed
    THEN EmptyDict
    ELSE [name |-> "RAG-ChatBot", points_count |-> Len(points), status |-> "green"]

(***************************************************************************)
(* app/core/rag_engine.py: query                                           *)
(***************************************************************************)
\* "if not conversation_id": None and '' are both falsy
Falsy(opt) == IsNone(opt) \/ Get(opt) = ""

\* a variant that never keeps the caller's id
ConversationId_AlwaysFresh(given, fresh) == fresh

\* lines 95-97: the conversation id of the answer; fresh is str(uuid.uuid4())
ConversationId(given, fresh) == IF Falsy(given) THEN fresh ELSE Get(given)

\* result['metadata'].get('filename', 'Unknown')
SourceOf(res) ==
    IF "filename" \in DOMAIN res.metadata THEN res.metadata.filename ELSE "Unknown"

\* the set under list(set([...])) of line 125
SourceSet(results) == {SourceOf(results[i]) : i \in DOMAIN results}

\* list(set(...)): the elements of the set once each, in an order Python
\* leaves open
ListsOfSet(S) ==
    {s \in [1..Cardinality(S) -> S] : Range(s) = S}

\* a variant without set(): one source per result
Sources_NoDedup(results) == {[i \in DOMAIN results |-> SourceOf(results[i])]}

\* the lists line 125 can yield
Sources(results) == ListsOfSet(SourceSet(results))

\* a variant that reports context it does not have
UngroundedResult_HasContext(text, cid) ==
    [response |-> text, conversation_id |-> cid, sources |-> <<>>, has_context |-> TRUE]

\* lines 116-121: the result without context
UngroundedResult(text, cid) ==
    [response |-> text, conversation_id |-> cid, sources |-> <<>>, has_context |-> FALSE]

\* lines 136-142: the result with context
GroundedResult(text, cid, sources, results) ==
    [response |-> text,
     conversation_id |-> cid,
     sources |-> sources,
     has_context |-> TRUE,
     relevance_scores |-> [i \in DOMAIN results |-> results[i].score]]

\* lines 95-97
query_begin ==
    /\ pc = "query"
    /\ conversation_id' = Some(ConversationId(request.conversation_id, Uuid(uuids + 1)))
    /\ uuids' = IF Falsy(request.conversation_id) THEN uuids + 1 ELSE uuids
    /\ pc' = "generate_query_embedding"
    /\ UNCHANGED <<files, collection, nreq, request, file_path, chunks,
                   base_metadata, embeddings, query_embedding, search_results,
                   exc, result, response, calls, collection0, aside>>

\* a variant that searches with a vector of its own when the embedding failed
generate_query_embedding_SearchAnyway ==
    /\ pc = "generate_query_embedding"
    /\ \E outcome \in EmbedOutcomes :
         LET got == GenerateQueryEmbedding(request.message, outcome)
         IN  /\ calls' = Append(calls, Call("embed_content",
                                            [task |-> "retrieval_query", chunk |-> 0],
                                            got.ok))
             /\ query_embedding' =
                    Some(IF got.ok
                         THEN got.embedding
                         ELSE Vector(request.message, "retrieval_query",
                                     EMBEDDING_DIMENSION))
             /\ pc' = "search"
             /\ exc' = None
    /\ UNCHANGED <<files, collection, uuids, nreq, request, file_path, chunks,
                   base_metadata, embeddings, conversation_id, search_results,
                   result, response, collection0, aside>>

\* line 102
generate_query_embedding ==
    /\ pc = "generate_query_embedding"
    /\ \E outcome \in EmbedOutcomes :
         LET got == GenerateQueryEmbedding(request.message, outcome)
         IN  /\ calls' = Append(calls, Call("embed_content",
                                            [task |-> "retrieval_query", chunk |-> 0],
                                            got.ok))
             /\ IF got.ok
                THEN /\ query_embedding' = Some(got.embedding)
                     /\ pc' = "search"
                     /\ exc' = None
                ELSE /\ exc' = Some(got.exc)
                     /\ pc' = "handle_chat_message_except"
                     /\ UNCHANGED query_embedding
    /\ UNCHANGED <<files, collection, uuids, nreq, request, file_path, chunks,
                   base_metadata, embeddings, conversation_id, search_results,
                   result, response, collection0, aside>>

\* the top_k that query hands to search: its own default, since
\* handle_chat_message passes none
QueryTopK == QueryDefaultTopK

\* lines 105-110
search ==
    /\ pc = "search"
    /\ \E failure \in {None} \cup {Some(m) : m \in InternalErrors} :
         LET vector == Get(query_embedding)
             limit == SearchLimit(Some(QueryTopK))
             found == Search(vector, limit, collection)
         IN  /\ calls' = Append(calls, Call("search",
                                            [vector |-> vector, limit |-> limit],
                                            VectorFits(vector) /\ IsNone(failure)))
             /\ IF ~VectorFits(vector)
                THEN /\ failure = None
                     /\ exc' = Some(Raise("UnexpectedResponse",
                                          "Wrong input: Vector dimension error"))
                     /\ pc' = "handle_chat_message_except"
                     /\ UNCHANGED search_results
                ELSE IF ~IsNone(failure)
                THEN /\ exc' = Some(Raise("ResponseHandlingException", Get(failure)))
                     /\ pc' = "handle_chat_message_except"
                     /\ UNCHANGED search_results
                ELSE /\ search_results' = found
                     /\ pc' = IF found = <<>>
                              THEN "generate_response"
                              ELSE "generate_rag_response"
                     /\ exc' = None
    /\ UNCHANGED <<files, collection, uuids, nreq, request, file_path, chunks,
                   base_metadata, embeddings, conversation_id, query_embedding,
                   result, response, collection0, aside>>

\* handle_chat_message returns what query returned, to the route that
\* called it
HandleChatMessageReturnsTo ==
    IF request.endpoint = "/chat" THEN "chat_return" ELSE "chat_with_file_return"

\* GeminiClient.generate_response(prompt): response.text, or the exception
GenerateResponse(prompt, failure) ==
    IF IsNone(failure)
    THEN [ok |-> TRUE, text |-> "answer to " \o prompt.kind \o " prompt"]
    ELSE [ok |-> FALSE,
          exc |-> Raise("Exception", "Failed to generate response: " \o Get(failure))]

\* lines 110-121: no search result, the answer without context
generate_response ==
    /\ pc = "generate_response"
    /\ \E failure \in {None} \cup {Some(m) : m \in InternalErrors} :
         LET prompt == [kind |-> "plain", query |-> request.message, documents |-> 0]
             got == GenerateResponse(prompt, failure)
         IN  /\ calls' = Append(calls, Call("generate_content", prompt, got.ok))
             /\ IF got.ok
                THEN /\ result' = Some(UngroundedResult(got.text, Get(conversation_id)))
                     /\ pc' = HandleChatMessageReturnsTo
                     /\ exc' = None
                ELSE /\ exc' = Some(got.exc)
                     /\ pc' = "handle_chat_message_except"
                     /\ UNCHANGED result
    /\ UNCHANGED <<files, collection, uuids, nreq, request, locals, response,
                   collection0, aside>>

\* a variant that answers without context when the generation fails
generate_rag_response_Fallback ==
    /\ pc = "generate_rag_response"
    /\ \E failure \in {None} \cup {Some(m) : m \in InternalErrors},
          sources \in Sources(search_results) :
         LET prompt == [kind |-> "rag", query |-> request.message,
                        documents |-> Len(search_results)]
             got == GenerateResponse(prompt, failure)
         IN  /\ calls' = Append(calls, Call("generate_content", prompt, got.ok))
             /\ result' = Some(GroundedResult(IF got.ok THEN got.text ELSE "sorry",
                                              Get(conversation_id), sources,
                                              search_results))
             /\ pc' = HandleChatMessageReturnsTo
             /\ exc' = None
    /\ UNCHANGED <<files, collection, uuids, nreq, request, locals, response,
                   collection0, aside>>

\* lines 123-142: the answer from the retrieved chunks
generate_rag_response ==
    /\ pc = "generate_rag_response"
    /\ \E failure \in {None} \cup {Some(m) : m \in InternalErrors},
          sources \in Sources(search_results) :
         LET context_chunks == [i \in DOMAIN search_results |-> search_results[i].text]
             prompt == [kind |-> "rag", query |-> request.message,
                        documents |-> Len(context_chunks)]
             got == GenerateResponse(prompt, failure)
         IN  /\ calls' = Append(calls, Call("generate_content", prompt, got.ok))
             /\ IF got.ok
                THEN /\ result' = Some(GroundedResult(got.text, Get(conversation_id),
                                                      sources, search_results))
                     /\ pc' = HandleChatMessageReturnsTo
                     /\ exc' = None
                ELSE /\ exc' = Some(got.exc)
                     /\ pc' = "handle_chat_message_except"
                     /\ UNCHANGED result
    /\ UNCHANGED <<files, collection, uuids, nreq, request, locals, response,
                   collection0, aside>>

(***************************************************************************)
(* app/services/chat_service.py and app/api/routes/chat.py: chat, stats    *)
(***************************************************************************)
\* handle_chat_message lines 41-43: raise Exception(f"Failed to process
\* message: {str(e)}")
HandleChatMessageError(e) ==
    RaiseFrom("Exception", "Failed to process message: " \o StrExc(e), e)

handle_chat_message_except ==
    /\ pc = "handle_chat_message_except"
    /\ exc' = Some(HandleChatMessageError(Get(exc)))
    /\ pc' = IF request.endpoint = "/chat"
             THEN "chat_except"
             ELSE "chat_with_file_except"
    /\ UNCHANGED <<files, collection, uuids, nreq, request, locals, result,
                   response, calls, collection0, aside>>

\* chat lines 43-48: HTTPException(500, detail=str(e))
ChatErrorResponse(e) == [status |-> 500, detail |-> StrExc(e)]

chat_except ==
    /\ pc = "chat_except"
    /\ response' = Some(ChatErrorResponse(Get(exc)))
    /\ pc' = "done"
    /\ UNCHANGED <<files, collection, uuids, nreq, request, locals, exc, result,
                   calls, collection0, aside>>

\* chat lines 37-41: the ChatResponse
chat_return ==
    /\ pc = "chat_return"
    /\ response' = Some([status |-> 200,
                         response |-> Get(result).response,
                         conversation_id |-> Get(result).conversation_id,
                         sources |-> Get(result).sources])
    /\ pc' = "done"
    /\ UNCHANGED <<files, collection, uuids, nreq, request, locals, exc, result,
                   calls, collection0, aside>>

\* the constraints of ChatRequest.message
ChatRequestValid(message) ==
    /\ Len(message) >= MessageMinLength
    /\ Len(message) <= MessageMaxLength

\* POST /chat: the body is validated as a ChatRequest before chat is called
chat ==
    /\ pc \in {"idle", "done"}
    /\ \E message \in Messages \cup InvalidMessages, given \in ConversationIds :
          Begin([endpoint |-> "/chat", message |-> message,
                 conversation_id |-> given],
                IF ChatRequestValid(message)
                THEN "query"
                ELSE "validation_exception_handler")

\* app/main.py: the handler of RequestValidationError
validation_exception_handler ==
    /\ pc = "validation_exception_handler"
    /\ response' = Some([status |-> 422, detail |-> "Validation error"])
    /\ pc' = "done"
    /\ UNCHANGED <<files, collection, uuids, nreq, request, locals, exc, result,
                   calls, collection0, aside>>

\* message: str = Form(...): a required form field, of any length; an empty
\* field counts as a missing one
FormValid(message) == message # ""

\* POST /chat-with-file: lines 119-123, the upload comes first when there is
\* a file
chat_with_file ==
    /\ pc \in {"idle", "done"}
    /\ \E message \in FormMessages, file \in FormFiles, given \in ConversationIds :
          IF IsNone(file)
          THEN Begin([endpoint |-> "/chat-with-file", message |-> message,
                      conversation_id |-> given],
                     IF FormValid(message)
                     THEN "query"
                     ELSE "validation_exception_handler")
          ELSE Begin([endpoint |-> "/chat-with-file", message |-> message,
                      conversation_id |-> given, file |-> Get(file)],
                     IF FormValid(message)
                     THEN "save_upload_file"
                     ELSE "validation_exception_handler")

\* chat_with_file lines 123-129: the result of the upload is dropped and
\* handle_chat_message is called
chat_with_file_handle_chat_message ==
    /\ pc = "chat_with_file_handle_chat_message"
    /\ result' = None
    /\ pc' = "query"
    /\ UNCHANGED <<files, collection, uuids, nreq, request, locals, exc, response,
                   calls, collection0, aside>>

\* the except clauses of chat_with_file: ValueError is a 400, the rest a 500
ChatWithFileErrorResponse(e) ==
    [status |-> IF e.cls = "ValueError" THEN 400 ELSE 500, detail |-> StrExc(e)]

\* chat_with_file lines 137-147
chat_with_file_except ==
    /\ pc = "chat_with_file_except"
    /\ response' = Some(ChatWithFileErrorResponse(Get(exc)))
    /\ pc' = "done"
    /\ UNCHANGED <<files, collection, uuids, nreq, request, locals, exc, result,
                   calls, collection0, aside>>

\* chat_with_file lines 131-135: the ChatResponse
chat_with_file_return ==
    /\ pc = "chat_with_file_return"
    /\ response' = Some([status |-> 200,
                         response |-> Get(result).response,
                         conversation_id |-> Get(result).conversation_id,
                         sources |-> Get(result).sources])
    /\ pc' = "done"
    /\ UNCHANGED <<files, collection, uuids, nreq, request, locals, exc, result,
                   calls, collection0, aside>>

\* GET /stats
get_stats ==
    /\ pc \in {"idle", "done"}
    /\ Begin([endpoint |-> "/stats"], "get_collection_info")

\* get_stats -> get_collection_stats -> get_collection_info: each returns
\* what the next returned, and none of the three raises
get_collection_info ==
    /\ pc = "get_collection_info"
    /\ \E failed \in BOOLEAN :
         /\ result' = Some(GetCollectionInfo(collection, failed))
         /\ calls' = Append(calls, Call("get_collection", "RAG-ChatBot", ~failed))
    /\ pc' = "stats_return"
    /\ UNCHANGED <<files, collection, uuids, nreq, request, locals, exc, response,
                   collection0, aside>>

\* the /stats route returns the dict
stats_return ==
    /\ pc = "stats_return"
    /\ response' = Some([status |-> 200, body |-> Get(result)])
    /\ pc' = "done"
    /\ UNCHANGED <<files, collection, uuids, nreq, request, locals, exc, result,
                   calls, collection0, aside>>

(***************************************************************************)
(* app/core/vector_store.py: VectorStore.__init__ and                      *)
(* _ensure_collection_exists.  Every process that imports the module       *)
(* constructs one VectorStore against the same Qdrant server; the          *)
(* constructors of different processes interleave at their two requests,   *)
(* get_collections and create_collection.                                  *)
(***************************************************************************)
\* the constructors that run
Constructors == 1..NumConstructors

\* settings.QDRANT_COLLECTION_NAME
collection_name == "RAG-ChatBot"

\* what the server holds before the first constructor runs
StartupInit ==
    /\ ServiceInit
    /\ collection = <<>>
    /\ chunker = ChunkerIdle
    /\ settings = DefaultSettings
    /\ tasks = <<>>
    /\ \E names \in {{}, {"notes"}, {collection_name}} :
          startup = [collection_names |-> names,
                     created |-> 0,
                     pc |-> [w \in Constructors |-> "get_collections"],
                     collection_names_seen |-> [w \in Constructors |-> {}],
                     exc |-> [w \in Constructors |-> None]]

\* Qdrant's create_collection: a name that exists already is a conflict
\* (409), which the client raises
CreateCollection(names, name) ==
    IF name \in names
    THEN [ok |-> FALSE,
          exc |-> Raise("UnexpectedResponse",
                        "409 Conflict: Collection " \o name \o " already exists!")]
    ELSE [ok |-> TRUE, names |-> names \cup {name}]

\* lines 30-33 and 42-46: the names are read, and the constructor is done
\* when its collection is among them
get_collections(w) ==
    /\ startup.pc[w] = "get_collections"
    /\ \E failure \in {None} \cup {Some(m) : m \in InternalErrors} :
         IF ~IsNone(failure)
         THEN startup' = [startup EXCEPT
                            !.pc[w] = "raised",
                            !.exc[w] = Some(Raise("ResponseHandlingException",
                                                  Get(failure)))]
         ELSE startup' = [startup EXCEPT
                            !.collection_names_seen[w] = startup.collection_names,
                            !.pc[w] = IF collection_name \in startup.collection_names
                                      THEN "done"
                                      ELSE "create_collection"]
    /\ UNCHANGED <<service, chunker, settings, tasks>>

\* lines 34-41 and 44-46: create_collection, whose exception leaves the
\* constructor
create_collection(w) ==
    /\ startup.pc[w] = "create_collection"
    /\ LET got == CreateCollection(startup.collection_names, collection_name)
       IN  IF got.ok
           THEN startup' = [startup EXCEPT !.collection_names = got.names,
                                           !.created = @ + 1,
                                           !.pc[w] = "done"]
           ELSE startup' = [startup EXCEPT !.pc[w] = "raised",
                                           !.exc[w] = Some(got.exc)]
    /\ UNCHANGED <<service, chunker, settings, tasks>>

StartupNext ==
    \/ \E w \in Constructors : get_collections(w)
    \/ \E w \in Constructors : create_collection(w)

StartupSpec == StartupInit /\ [][StartupNext]_vars

(***************************************************************************)
(* app/utils/text_utils.py: chunk_text called on its own, one iteration of *)
(* its loop at a time.  The texts are short, so the 100 of the sentence    *)
(* search is scaled like the lengths of the spec's scenario (a text of     *)
(* 2500 characters, chunk_size 1000, overlap 200).                         *)
(***************************************************************************)
ChunkMargin == MarginChars \div ChunkScale
ScenarioText == Rep("a", ScenarioChars \div ChunkScale)
ScenarioChunkSize == ChunkSizeChars \div ChunkScale
ScenarioOverlap == OverlapChars \div ChunkScale

ChunkAlphabet == {"a", " ", ".", "?"}

\* the texts of at most n characters
TextsUpTo(n) == UNION {[1..k -> ChunkAlphabet] : k \in 0..n}

\* the arguments of the calls that are followed
ChunkCalls ==
    {[text |-> t, chunk_size |-> c, overlap |-> o] :
        t \in TextsUpTo(MaxTextLen), c \in 1..MaxChunkSize, o \in 0..(MaxChunkSize - 1)}
    \cup {[text |-> ScenarioText, chunk_size |-> ScenarioChunkSize,
           overlap |-> ScenarioOverlap]}

\* chunk_text(text, chunk_size, overlap) has been called
ChunkInit ==
    /\ ServiceInit
    /\ collection = <<>>
    /\ startup = StartupDone
    /\ settings = DefaultSettings
    /\ tasks = <<>>
    /\ \E call \in ChunkCalls :
          /\ call.overlap < call.chunk_size
          /\ chunker = [pc |-> "chunk_text", text |-> call.text,
                        chunk_size |-> call.chunk_size, overlap |-> call.overlap,
                        start |-> 0, chunks |-> <<>>, windows |-> <<>>]

\* lines 33-37: a text that fits in one chunk is returned as it is
chunk_text_begin ==
    /\ chunker.pc = "chunk_text"
    /\ chunker' = IF Len(chunker.text) <= chunker.chunk_size
                  THEN [chunker EXCEPT !.chunks = <<chunker.text>>, !.pc = "return"]
                  ELSE [chunker EXCEPT !.chunks = <<>>, !.start = 0, !.pc = "while"]
    /\ UNCHANGED <<service, startup, settings, tasks>>

\* a variant whose next window starts after the end of this one
chunk_text_window_Gap ==
    /\ chunker.pc = "while"
    /\ chunker.start < Len(chunker.text)
    /\ Len(chunker.windows) < MaxWindows
    /\ LET end == SentenceEnd(chunker.text, chunker.chunk_size, chunker.start,
                              ChunkMargin)
           chunk == PyStrip(PySlice(chunker.text, chunker.start, end))
       IN  chunker' = [chunker EXCEPT
                         !.chunks = IF chunk # <<>> THEN Append(@, chunk) ELSE @,
                         !.windows = Append(@, [start |-> chunker.start, end |-> end]),
                         !.start = end + 1]
    /\ UNCHANGED <<service, startup, settings, tasks>>

\* lines 39-57: one iteration of the loop; windows records its start and end
chunk_text_window ==
    /\ chunker.pc = "while"
    /\ chunker.start < Len(chunker.text)
    /\ Len(chunker.windows) < MaxWindows
    /\ LET end == SentenceEnd(chunker.text, chunker.chunk_size, chunker.start,
                              ChunkMargin)
           chunk == PyStrip(PySlice(chunker.text, chunker.start, end))
       IN  chunker' = [chunker EXCEPT
                         !.chunks = IF chunk # <<>> THEN Append(@, chunk) ELSE @,
                         !.windows = Append(@, [start |-> chunker.start, end |-> end]),
                         !.start = end - chunker.overlap]
    /\ UNCHANGED <<service, startup, settings, tasks>>

\* lines 39 and 59: the loop is left
chunk_text_return ==
    /\ chunker.pc = "while"
    /\ ~(chunker.start < Len(chunker.text))
    /\ chunker' = [chunker EXCEPT !.pc = "return"]
    /\ UNCHANGED <<service, startup, settings, tasks>>

ChunkNext ==
    \/ chunk_text_begin
    \/ chunk_text_window
    \/ chunk_text_return

ChunkSpec == ChunkInit /\ [][ChunkNext]_vars

(***************************************************************************)
(* Upload requests side by side.  Every request has its own locals; the    *)
(* upload directory, the collection and the source of uuids are shared.    *)
(* A step is what a request does up to its next call of a collaborator,    *)
(* and the steps of the requests interleave freely, which covers both the  *)
(* event loop of one process (it switches at await) and several worker     *)
(* processes.                                                              *)
(***************************************************************************)
Tasks == 1..NumTasks

\* what the request handlers for one request at a time keep
handlers == <<nreq, pc, request, locals, exc, result, response, calls, collection0>>

\* a request that has not arrived yet
TaskIdle ==
    [pc |-> "idle", file |-> None, file_path |-> None, chunks |-> <<>>,
     base_metadata |-> EmptyDict, embeddings |-> <<>>, exc |-> None,
     result |-> None, response |-> None, upserted |-> <<>>]

UploadsInit ==
    /\ ServiceInit
    /\ collection = <<>>
    /\ chunker = ChunkerIdle
    /\ startup = StartupDone
    /\ settings = DefaultSettings
    /\ tasks = [t \in Tasks |-> TaskIdle]

\* POST /upload arrives
task_upload_document(t) ==
    /\ tasks[t].pc = "idle"
    /\ \E file \in UploadFiles :
          tasks' = [tasks EXCEPT ![t].file = Some(file), ![t].pc = "save_upload_file"]
    /\ UNCHANGED <<files, collection, uuids, handlers, chunker, startup, settings>>

\* save_upload_file(upload_file)
task_save_upload_file(t) ==
    /\ tasks[t].pc = "save_upload_file"
    /\ \E written \in BOOLEAN :
         LET upload_file == Get(tasks[t].file)
             path == UploadPath(Uuid(uuids + 1), upload_file.filename)
         IN  IF ~validate_file_type(upload_file.filename)
             THEN /\ written
                  /\ tasks' = [tasks EXCEPT
                                 ![t].exc = Some(HTTPException(400, "File type not allowed")),
                                 ![t].pc = "handle_file_upload_except"]
                  /\ UNCHANGED <<files, uuids>>
             ELSE IF ~validate_file_size(upload_file.size)
             THEN /\ written
                  /\ tasks' = [tasks EXCEPT
                                 ![t].exc = Some(HTTPException(400, "File too large")),
                                 ![t].pc = "handle_file_upload_except"]
                  /\ UNCHANGED <<files, uuids>>
             ELSE /\ uuids' = uuids + 1
                  /\ IF written
                     THEN /\ files' = files \cup {path}
                          /\ tasks' = [tasks EXCEPT ![t].file_path = Some(path),
                                                    ![t].pc = "process_document"]
                     ELSE /\ tasks' = [tasks EXCEPT
                                         ![t].exc = Some(HTTPException(500, "Error saving file")),
                                         ![t].pc = "handle_file_upload_except"]
                          /\ UNCHANGED files
    /\ UNCHANGED <<collection, handlers, chunker, startup, settings>>

\* rag_engine.py lines 32-35
task_process_document(t) ==
    /\ tasks[t].pc = "process_document"
    /\ \E failure \in {None} \cup {Some(m) : m \in InternalErrors} :
         LET path == Get(tasks[t].file_path)
             doc == ProcessDocument(path, Get(tasks[t].file).text, failure)
         IN  /\ IsNone(failure) \/ PyLower(PathLastSegment(path)) \in supported_types \ {"txt"}
             /\ tasks' = IF ~doc.ok
                         THEN [tasks EXCEPT ![t].exc = Some(doc.exc),
                                            ![t].pc = "process_and_store_document_except"]
                         ELSE IF doc.chunks = <<>>
                         THEN [tasks EXCEPT
                                 ![t].exc = Some(Raise("ValueError",
                                                       "No text chunks extracted from document")),
                                 ![t].pc = "process_and_store_document_except"]
                         ELSE [tasks EXCEPT ![t].chunks = doc.chunks,
                                            ![t].base_metadata = doc.metadata,
                                            ![t].pc = "generate_embeddings"]
    /\ UNCHANGED <<files, collection, uuids, handlers, chunker, startup, settings>>

\* rag_engine.py lines 39-42: one iteration of "for chunk in chunks"
task_generate_embeddings(t) ==
    /\ tasks[t].pc = "generate_embeddings"
    /\ \E outcome \in EmbedOutcomes :
         LET chunk == tasks[t].chunks[Len(tasks[t].embeddings) + 1]
             got == GenerateEmbeddings(chunk, outcome)
         IN  tasks' = IF got.ok
                      THEN [tasks EXCEPT
                              ![t].embeddings = Append(@, got.embedding),
                              ![t].pc = IF Len(tasks[t].embeddings) + 1 = Len(tasks[t].chunks)
                                        THEN "add_documents"
                                        ELSE "generate_embeddings"]
                      ELSE [tasks EXCEPT ![t].exc = Some(got.exc),
                                         ![t].pc = "process_and_store_document_except"]
    /\ UNCHANGED <<files, collection, uuids, handlers, chunker, startup, settings>>

\* rag_engine.py lines 44-56 and add_documents
task_add_documents(t) ==
    /\ tasks[t].pc = "add_documents"
    /\ \E failure \in {None} \cup {Some(m) : m \in InternalErrors} :
         LET metadata_list == MetadataList(tasks[t].chunks, tasks[t].base_metadata)
             points == Points(tasks[t].chunks, tasks[t].embeddings, metadata_list, uuids)
             rejected == \E i \in DOMAIN points : ~VectorFits(points[i].vector)
         IN  /\ uuids' = uuids + Len(points)
             /\ IF rejected
                THEN /\ failure = None
                     /\ tasks' = [tasks EXCEPT
                                    ![t].exc = Some(Raise("UnexpectedResponse",
                                                          "Wrong input: Vector dimension error")),
                                    ![t].pc = "process_and_store_document_except"]
                     /\ UNCHANGED collection
                ELSE IF ~IsNone(failure)
                THEN /\ tasks' = [tasks EXCEPT
                                    ![t].exc = Some(Raise("ResponseHandlingException",
                                                          Get(failure))),
                                    ![t].pc = "process_and_store_document_except"]
                     /\ UNCHANGED collection
                ELSE /\ collection' = collection \o points
                     /\ tasks' = [tasks EXCEPT
                                    ![t].result = Some([document_ids |->
                                                          [i \in DOMAIN points |-> points[i].id]]),
                                    ![t].upserted = points,
                                    ![t].pc = "process_and_store_document_return"]
    /\ UNCHANGED <<files, handlers, chunker, startup, settings>>

\* delete_file(file_path) by a request that runs beside others
TaskDeleteFile(path, removed) ==
    files' = IF path \in files /\ removed THEN files \ {path} ELSE files

\* rag_engine.py lines 58-69 and upload_document lines 71-78
task_process_and_store_document_return(t) ==
    /\ tasks[t].pc = "process_and_store_document_return"
    /\ \E removed \in BOOLEAN : TaskDeleteFile(Get(tasks[t].file_path), removed)
    /\ tasks' = [tasks EXCEPT
                   ![t].response =
                       Some([status |-> 200,
                             success |-> TRUE,
                             message |-> "Document processed and stored successfully",
                             document_id |-> Get(tasks[t].result).document_ids[1],
                             filename |-> tasks[t].base_metadata.filename]),
                   ![t].pc = "done"]
    /\ UNCHANGED <<collection, uuids, handlers, chunker, startup, settings>>

\* rag_engine.py lines 71-75: except Exception: delete_file(file_path); raise
task_process_and_store_document_except(t) ==
    /\ tasks[t].pc = "process_and_store_document_except"
    /\ \E removed \in BOOLEAN : TaskDeleteFile(Get(tasks[t].file_path), removed)
    /\ tasks' = [tasks EXCEPT ![t].pc = "handle_file_upload_except"]
    /\ UNCHANGED <<collection, uuids, handlers, chunker, startup, settings>>

\* handle_file_upload lines 66-68 and the except clauses of upload_document
task_handle_file_upload_except(t) ==
    /\ tasks[t].pc = "handle_file_upload_except"
    /\ LET e == RaiseFrom("Exception",
                          "Failed to process file: " \o StrExc(Get(tasks[t].exc)),
                          Get(tasks[t].exc))
       IN  tasks' = [tasks EXCEPT ![t].exc = Some(e),
                                  ![t].response = Some(UploadErrorResponse(e)),
                                  ![t].pc = "done"]
    /\ UNCHANGED <<files, collection, uuids, handlers, chunker, startup, settings>>

UploadsNext ==
    \/ \E t \in Tasks : task_upload_document(t)
    \/ \E t \in Tasks : task_save_upload_file(t)
    \/ \E t \in Tasks : task_process_document(t)
    \/ \E t \in Tasks : task_generate_embeddings(t)
    \/ \E t \in Tasks : task_add_documents(t)
    \/ \E t \in Tasks : task_process_and_store_document_return(t)
    \/ \E t \in Tasks : task_process_and_store_document_except(t)
    \/ \E t \in Tasks : task_handle_file_upload_except(t)

UploadsSpec == UploadsInit /\ [][UploadsNext]_vars

(***************************************************************************)
(* The specification.                                                      *)
(***************************************************************************)
Next ==
    \/ upload_document
    \/ save_upload_file
    \/ process_document
    \/ generate_embeddings
    \/ add_documents
    \/ process_and_store_document_return
    \/ process_and_store_document_except
    \/ handle_file_upload_except
    \/ upload_document_except
    \/ upload_document_return
    \/ chat
    \/ query_begin
    \/ generate_query_embedding
    \/ search
    \/ generate_response
    \/ generate_rag_response
    \/ handle_chat_message_except
    \/ chat_except
    \/ chat_return
    \/ validation_exception_handler
    \/ chat_with_file
    \/ chat_with_file_handle_chat_message
    \/ chat_with_file_except
    \/ chat_with_file_return
    \/ get_stats
    \/ get_collection_info
    \/ stats_return

Spec == Init /\ [][Next]_vars

\* the service under a TOP_K_RESULTS that the environment may have set
TopKSettings == {1, TOP_K_RESULTS}

ConfiguredInit ==
    /\ ServiceInit
    /\ chunker = ChunkerIdle
    /\ startup = StartupDone
    /\ settings \in {[TOP_K_RESULTS |-> k] : k \in TopKSettings}
    /\ tasks = <<>>

ConfiguredSpec == ConfiguredInit /\ [][Next]_vars

(***************************************************************************)
(* What the claims speak of.                                               *)
(***************************************************************************)
CallsOf(op) == {i \in DOMAIN calls : calls[i].op = op}
FailedCalls(op) == {i \in CallsOf(op) : ~calls[i].ok}

RECURSIVE RootCause(_)
\* the exception at the end of the __context__ chain
RootCause(e) == IF IsNone(e.context) THEN e ELSE RootCause(Get(e.context))

\* process_and_store_document was called and has returned or raised
IngestFinished ==
    /\ request.endpoint = "/upload"
    /\ ~IsNone(file_path)
    /\ pc \in {"upload_document_return", "handle_file_upload_except",
               "upload_document_except", "done"}

\* the upload is on its way out with an exception, or has answered with an error
UploadRaising ==
    /\ ~IsNone(exc)
    /\ pc \in {"process_and_store_document_except", "handle_file_upload_except",
               "upload_document_except", "done"}
    /\ pc = "done" => Get(response).status # 200

\* an embedding call of the upload in flight has raised
EmbeddingFailed ==
    /\ request.endpoint = "/upload"
    /\ FailedCalls("embed_content") # {}

\* query has searched, found nothing, and has returned or raised
UngroundedFinished ==
    /\ request.endpoint = "/chat"
    /\ \E i \in CallsOf("search") : calls[i].ok
    /\ search_results = <<>>
    /\ pc \in {"chat_return", "handle_chat_message_except", "chat_except", "done"}

\* query has returned a result
QueryReturned == request.endpoint = "/chat" /\ ~IsNone(result)

\* query has returned a result built from search results
GroundedReturned == QueryReturned /\ search_results # <<>>

\* a collaborator call of the chat request in flight has raised
ChatCollaboratorFailed ==
    /\ request.endpoint = "/chat"
    /\ \E i \in DOMAIN calls : ~calls[i].ok

(***************************************************************************)
(* C1, as stated: whenever process_and_store_document has returned or      *)
(* raised, delete_file(file_path) has been called and the temporary file   *)
(* no longer exists.                                                       *)
(***************************************************************************)
C1_FileGoneAfterIngest ==
    IngestFinished =>
        /\ \E i \in CallsOf("delete_file") : calls[i].arg = Get(file_path)
        /\ Get(file_path) \notin files

(***************************************************************************)
(* C1, amended: whenever process_and_store_document has returned or        *)
(* raised, delete_file(file_path) has been called, and the temporary file  *)
(* still exists only if os.remove failed in that call.                     *)
(***************************************************************************)
C1_DeleteAlwaysAttempted ==
    IngestFinished =>
        /\ \E i \in CallsOf("delete_file") : calls[i].arg = Get(file_path)
        /\ Get(file_path) \in files =>
               \A i \in CallsOf("delete_file") : ~calls[i].ok

\* an ingest that raised after chunking, and whose file is gone
C1_Witness ==
    /\ IngestFinished
    /\ ~IsNone(exc)
    /\ chunks # <<>>
    /\ Get(file_path) \notin files

(***************************************************************************)
(* C2: once an embedding call of an upload has failed, whichever chunk it  *)
(* was for, the ingest raises, upsert is not called for that request and   *)
(* the collection holds exactly the entries it held before the request.    *)
(***************************************************************************)
C2_NoPartialUpsert ==
    EmbeddingFailed =>
        /\ UploadRaising
        /\ CallsOf("upsert") = {}
        /\ collection = collection0

\* the embedding of the middle chunk of a three-chunk document failed
C2_Witness ==
    /\ EmbeddingFailed
    /\ pc = "done"
    /\ Len(chunks) = 3
    /\ Len(embeddings) = 1

(***************************************************************************)
(* C3, as stated: every vector handed to the index's upsert or search has  *)
(* exactly EMBEDDING_DIMENSION elements.                                   *)
(***************************************************************************)
C3_VectorsHaveDimension ==
    \A i \in DOMAIN calls :
        /\ calls[i].op = "upsert" =>
               \A j \in DOMAIN calls[i].arg :
                   calls[i].arg[j].vector.len = EMBEDDING_DIMENSION
        /\ calls[i].op = "search" =>
               calls[i].arg.vector.len = EMBEDDING_DIMENSION

\* the messages of the failures that are the client's
UnsupportedType(e) ==
    \/ e.msg = "File type not allowed"
    \/ /\ ~IsNone(file_path)
       /\ e.msg = "Unsupported file type: " \o PyLower(PathLastSegment(Get(file_path)))

NoExtractableText(e) ==
    e.msg \in {"No text could be extracted from document",
               "Failed to process image: No text could be extracted from image"}

(***************************************************************************)
(* C4, as stated: an upload that failed is answered with 400 when the      *)
(* cause is an unsupported file type or a document without extractable     *)
(* text, and with 500 otherwise.                                           *)
(***************************************************************************)
C4_ClientFaultsAre400 ==
    (request.endpoint = "/upload" /\ pc = "done" /\ ~IsNone(exc)) =>
        LET cause == RootCause(Get(exc))
        IN  IF UnsupportedType(cause) \/ NoExtractableText(cause)
            THEN Get(response).status = 400
            ELSE Get(response).status = 500

(***************************************************************************)
(* C5, as stated: when the search returned no result, query returns        *)
(* has_context = false and sources = [] and does not raise.                *)
(***************************************************************************)
C5_EmptySearchNeverRaises ==
    UngroundedFinished =>
        /\ IsNone(exc)
        /\ ~IsNone(result)
        /\ Get(result).has_context = FALSE
        /\ Get(result).sources = <<>>

(***************************************************************************)
(* C5, amended: when the search returned no result, query returns          *)
(* has_context = false and sources = [] unless the generation call         *)
(* fails; it raises exactly when the generation call fails.                *)
(***************************************************************************)
C5_EmptySearchIsUngrounded ==
    UngroundedFinished =>
        IF FailedCalls("generate_content") = {}
        THEN /\ IsNone(exc)
             /\ ~IsNone(result)
             /\ Get(result).has_context = FALSE
             /\ Get(result).sources = <<>>
        ELSE /\ ~IsNone(exc)
             /\ IsNone(result)

\* a chat answered from an empty collection
C5_Witness ==
    /\ UngroundedFinished
    /\ pc = "done"
    /\ Get(response).status = 200
    /\ Get(result).has_context = FALSE
    /\ Get(response).sources = <<>>

(***************************************************************************)
(* C6: a result built from search results has has_context = true, and its  *)
(* sources hold no duplicates, hold the filename of every retrieved result *)
(* ("Unknown" for a result without one) and hold nothing else; when all    *)
(* results come from one file, sources has exactly one element.            *)
(***************************************************************************)
C6_SourcesAreTheFilenames ==
    GroundedReturned =>
        LET sources == Get(result).sources
            name(i) == IF "filename" \in DOMAIN search_results[i].metadata
                       THEN search_results[i].metadata.filename
                       ELSE "Unknown"
        IN  /\ Get(result).has_context = TRUE
            /\ NoDuplicates(sources)
            /\ \A i \in DOMAIN search_results : \E j \in DOMAIN sources :
                   sources[j] = name(i)
            /\ \A j \in DOMAIN sources : \E i \in DOMAIN search_results :
                   sources[j] = name(i)
            /\ (\A i, k \in DOMAIN search_results : name(i) = name(k)) =>
                   Len(sources) = 1

\* two chunks of one document and an entry without a filename were retrieved
C6_Witness ==
    /\ GroundedReturned
    /\ Len(search_results) >= 3
    /\ Len(Get(result).sources) = 2
    /\ "Unknown" \in Range(Get(result).sources)

\* cid is a uuid drawn by now that names no point and no file
FreshIdentifier(cid) ==
    /\ cid # ""
    /\ \E n \in 1..uuids : cid = Uuid(n)
    /\ \A i \in DOMAIN collection : collection[i].id # cid
    /\ \A p \in files : p.uid # cid

(***************************************************************************)
(* C7, as stated: the conversation_id of query's result is the string the  *)
(* caller supplied, whatever that string is, and a fresh non-empty         *)
(* identifier when the caller supplied none.                               *)
(***************************************************************************)
C7_AnyIdPassesThrough ==
    QueryReturned =>
        IF IsNone(request.conversation_id)
        THEN FreshIdentifier(Get(result).conversation_id)
        ELSE Get(result).conversation_id = Get(request.conversation_id)

(***************************************************************************)
(* C7, amended: the conversation_id of query's result is the string the    *)
(* caller supplied when that string is not empty, and a fresh non-empty    *)
(* identifier when the caller supplied none or the empty string.           *)
(***************************************************************************)
C7_NonEmptyIdPassesThrough ==
    QueryReturned =>
        IF IsNone(request.conversation_id) \/ Get(request.conversation_id) = ""
        THEN FreshIdentifier(Get(result).conversation_id)
        ELSE Get(result).conversation_id = Get(request.conversation_id)

\* a chat that supplied the empty string was answered under a fresh
\* identifier, after one that supplied "abc123" had got it back
C7_Witness ==
    /\ QueryReturned
    /\ pc = "done"
    /\ request.conversation_id = Some("")
    /\ Get(response).conversation_id = Uuid(uuids)
    /\ nreq > 1

(***************************************************************************)
(* C8: once a collaborator call of a chat request has failed, no further   *)
(* collaborator is called (no search or generation after a failed          *)
(* embedding, no generation after a failed search), query raises and       *)
(* there is no result: the request ends with an error, on the grounded     *)
(* and on the ungrounded path alike.                                       *)
(***************************************************************************)
C8_QueryFailuresPropagate ==
    ChatCollaboratorFailed =>
        LET failed == CHOOSE i \in DOMAIN calls : ~calls[i].ok
        IN  /\ failed = Len(calls)
            /\ calls[failed].op = "embed_content" =>
                   CallsOf("search") \cup CallsOf("generate_content") = {}
            /\ calls[failed].op = "search" => CallsOf("generate_content") = {}
            /\ IsNone(result)
            /\ ~IsNone(exc)
            /\ pc \in {"handle_chat_message_except", "chat_except", "done"}
            /\ pc = "done" => Get(response).status = 500

\* the generation failed after chunks had been retrieved
C8_Witness ==
    /\ ChatCollaboratorFailed
    /\ pc = "done"
    /\ calls[Len(calls)].op = "generate_content"
    /\ calls[Len(calls)].arg.kind = "rag"

(***************************************************************************)
(* C9, as stated: /stats answers with {name, points_count, status} when    *)
(* the collection introspection succeeds and with a mapping that has an    *)
(* error key when it fails.                                                *)
(***************************************************************************)
C9_StatsOrError ==
    (request.endpoint = "/stats" /\ pc = "done") =>
        /\ Get(response).status = 200
        /\ IF calls[1].ok
           THEN DOMAIN Get(response).body = {"name", "points_count", "status"}
           ELSE "error" \in DOMAIN Get(response).body

(***************************************************************************)
(* C10: the entries handed to upsert are one per chunk, in chunk order:    *)
(* entry i carries chunk_index i - 1 (so 0, 1, ..., n-1 without gaps or    *)
(* repeats), total_chunks = n, the text of chunk i and the embedding of    *)
(* chunk i, where n is the number of chunks of the document.               *)
(***************************************************************************)
C10_EntriesFollowChunks ==
    \A c \in CallsOf("upsert") :
        LET points == calls[c].arg
            n == Len(chunks)
        IN  /\ Len(points) = n
            /\ {points[i].payload.chunk_index : i \in DOMAIN points} = 0..(n - 1)
            /\ \A i \in DOMAIN points :
                   /\ points[i].payload.chunk_index = i - 1
                   /\ points[i].payload.total_chunks = n
                   /\ points[i].payload.text = chunks[i]
                   /\ points[i].vector = embeddings[i]
                   /\ points[i].vector.src = chunks[i]

\* the three entries of a three-chunk document were upserted
C10_Witness ==
    \E c \in CallsOf("upsert") :
        /\ calls[c].ok
        /\ Len(calls[c].arg) = 3
        /\ \A i \in DOMAIN calls[c].arg : \E k \in DOMAIN collection :
               collection[k] = calls[c].arg[i]

\* the calls process_and_store_document has made so far, in order
IngestCalls ==
    SelectSeq(calls, LAMBDA c : IF c.op = "embed_content"
                                THEN c.arg.task = "retrieval_document"
                                ELSE c.op \in {"upsert", "delete_file"})

\* process_and_store_document has returned its result
IngestReturned == ~IsNone(result) /\ "chunks_count" \in DOMAIN Get(result)

\* the first n calls of the ingest are the embeddings of chunks 1..n, each
\* returned
EmbeddedInOrder(n) ==
    /\ Len(IngestCalls) >= n
    /\ \A i \in 1..n : /\ IngestCalls[i].op = "embed_content"
                        /\ IngestCalls[i].ok
                        /\ IngestCalls[i].arg.chunk = i
                        /\ embeddings[i].src = chunks[i]

QueryCalls ==
    SelectSeq(calls, LAMBDA c : IF c.op = "embed_content"
                                THEN c.arg.task = "retrieval_query"
                                ELSE c.op \in {"search", "generate_content"})

\* query has returned its result
QueryResultReturned == ~IsNone(result) /\ "has_context" \in DOMAIN Get(result)

\* the collaborators of query, in the order the spec gives them
QueryOrder == <<"embed_content", "search", "generate_content">>

(***************************************************************************)
(* C12: query calls its collaborators in the order embed (query intent),   *)
(* search, generate, each at most once and each only after the one before  *)
(* it has returned; a query that returns, with context or without, has     *)
(* called the generation exactly once, with the prompt of its path.        *)
(***************************************************************************)
C12_QueryOrder ==
    /\ Len(QueryCalls) <= Len(QueryOrder)
    /\ \A k \in DOMAIN QueryCalls :
          /\ QueryCalls[k].op = QueryOrder[k]
          /\ k > 1 => QueryCalls[k - 1].ok
    /\ QueryResultReturned =>
          /\ Len(QueryCalls) = Len(QueryOrder)
          /\ QueryCalls[3].ok
          /\ QueryCalls[3].arg.kind = IF Get(result).has_context THEN "rag" ELSE "plain"
          /\ Get(result).has_context <=> search_results # <<>>

\* a query has returned an answer built from search results
C12_Witness ==
    /\ QueryResultReturned
    /\ Get(result).has_context
    /\ Len(QueryCalls) = 3

\* constructor w raised because the server was not reachable
Unreachable(w) ==
    /\ ~IsNone(startup.exc[w])
    /\ Get(startup.exc[w]).msg \in InternalErrors

(***************************************************************************)
(* C13, as stated: however the constructors of VectorStore interleave, the *)
(* collection is created at most once, exactly once when all of them have  *)
(* finished and it did not exist before, and no constructor raises because *)
(* the collection exists: one that finds it, or loses the race to create   *)
(* it, finishes without creating anything.                                 *)
(***************************************************************************)
C13_CreatedOnceNoRaise ==
    /\ startup.created <= 1
    /\ \A w \in DOMAIN startup.pc :
          startup.pc[w] = "raised" => Unreachable(w)
    /\ (\A w \in DOMAIN startup.pc : startup.pc[w] = "done") =>
          /\ collection_name \in startup.collection_names
          /\ startup.created = 1 <=> \E w \in DOMAIN startup.pc :
                                       collection_name \notin startup.collection_names_seen[w]

\* chunk_text has returned chunker.chunks
ChunkTextReturned == chunker.pc = "return"

\* the call is the one of the spec's scenario
ScenarioCall ==
    /\ chunker.text = ScenarioText
    /\ chunker.chunk_size = ScenarioChunkSize
    /\ chunker.overlap = ScenarioOverlap

SentenceEnds == {".", "?", "!"}

\* the offsets of the sentence ends that the spec lets end the window
\* [start, start + chunk_size): those among its last min(100, chunk_size)
\* characters, after its start
BreakOffsets(text, chunk_size, start) ==
    {i \in Max(start, start + chunk_size - Min(ChunkMargin, chunk_size))
             .. (start + chunk_size - 1) :
        /\ i > start
        /\ i >= 0
        /\ i < Len(text)
        /\ text[i + 1] \in SentenceEnds}

C15_BoundedAndMonotone ==
    /\ \A i \in DOMAIN chunker.chunks :
          Len(chunker.chunks[i]) <= chunker.chunk_size + ChunkMargin
    /\ \A i \in DOMAIN chunker.windows :
          /\ i > 1 => chunker.windows[i - 1].start <= chunker.windows[i].start
          /\ i = Len(chunker.windows) => chunker.windows[i].start <= chunker.start

(***************************************************************************)
(* C16, as stated: a text of 2500 characters chunked with chunk_size 1000  *)
(* and overlap 200 yields exactly 3 chunks, and the second chunk begins at *)
(* offset 800 when the first window was not moved to a sentence end.       *)
(***************************************************************************)
C16_ScenarioYieldsThree ==
    (ScenarioCall /\ ChunkTextReturned) =>
        /\ Len(chunker.chunks) = 3
        /\ chunker.windows[1].end = ScenarioChunkSize =>
              chunker.windows[2].start = ScenarioChunkSize - ScenarioOverlap

(***************************************************************************)
(* C20, as stated: a window whose nominal end start + chunk_size lies      *)
(* before the end of the text ends just after the right-most '.', '?' or   *)
(* '!' among its last min(100, chunk_size) characters at an offset greater *)
(* than its start, and at start + chunk_size when there is none.           *)
(***************************************************************************)
C20_WindowEndsAtSentence ==
    \A i \in DOMAIN chunker.windows :
        LET w == chunker.windows[i]
            found == BreakOffsets(chunker.text, chunker.chunk_size, w.start)
        IN  w.start + chunker.chunk_size < Len(chunker.text) =>
                w.end = IF found # {}
                        THEN SetMax(found) + 1
                        ELSE w.start + chunker.chunk_size

\* query has been called with request.message
QueryCalled ==
    \/ pc \in {"query", "generate_query_embedding", "search", "generate_response",
                "generate_rag_response"}
    \/ QueryCalls # <<>>

(***************************************************************************)
(* C17, as stated: a message that reaches query, through /chat or through  *)
(* /chat-with-file, is between 1 and 5000 characters long; no embedding,   *)
(* search or generation call is made for a message outside that range.     *)
(***************************************************************************)
C17_MessageLengthChecked ==
    QueryCalled =>
        /\ Len(request.message) >= MessageMinLength
        /\ Len(request.message) <= MessageMaxLength

\* the exception query gets from the collaborator call c when what the
\* collaborator reports is m
CollaboratorError(c, m) ==
    CASE c.op = "embed_content" ->
            GenerateQueryEmbedding(request.message,
                                   [raised |-> TRUE, msg |-> m, len |-> 0]).exc
      [] c.op = "search" -> Raise("ResponseHandlingException", m)
      [] c.op = "generate_content" -> GenerateResponse(c.arg, Some(m)).exc

\* the response of /chat to the request in flight when its collaborator
\* call c fails and reports m
ChatFailureResponse(c, m) ==
    ChatErrorResponse(HandleChatMessageError(CollaboratorError(c, m)))

\* /chat has answered after its last collaborator call failed and reported
\* one of the internal messages
ChatFailureAnswered ==
    /\ request.endpoint = "/chat"
    /\ pc = "done"
    /\ calls # <<>>
    /\ ~Last(calls).ok
    /\ \E m \in InternalErrors :
          RootCause(Get(exc)) = CollaboratorError(Last(calls), m)

(***************************************************************************)
(* C18, as stated: the error response of a chat request whose embedding,   *)
(* index or generation collaborator failed does not depend on what the     *)
(* collaborator reported: the request that differs only in that internal   *)
(* message gets the same response.                                         *)
(***************************************************************************)
C18_ErrorResponseIsGeneric ==
    ChatFailureAnswered =>
        \A m \in InternalErrors :
            ChatFailureResponse(Last(calls), m) = Get(response)

\* upload_file.filename, the name the client gave the file
OriginalFilename(file) == JoinDots(file.filename)

\* the index entries the request in flight has added
AddedPoints == SubSeq(collection, Len(collection0) + 1, Len(collection))

(***************************************************************************)
(* C19, as stated: the filename a successful upload reports, the filename  *)
(* in the payload of every index entry of the document, and so the         *)
(* filename a later query returns in sources for one of its chunks, is the *)
(* original filename of the uploaded file.                                 *)
(***************************************************************************)
C19_FilenameIsOriginal ==
    /\ (request.endpoint = "/upload" /\ pc = "done" /\ Get(response).status = 200) =>
          Get(response).filename = OriginalFilename(request.file)
    /\ \A i \in DOMAIN AddedPoints :
          AddedPoints[i].payload.filename = OriginalFilename(request.file)
    /\ QueryResultReturned =>
          \A i \in DOMAIN Get(result).sources :
              Get(result).sources[i] \in
                  {OriginalFilename(f) : f \in UploadFiles} \cup {"Unknown"}

\* the searches of the request in flight
SearchCalls == SelectSeq(calls, LAMBDA c : c.op = "search")

(***************************************************************************)
(* C21, as stated: a query whose caller names no top_k searches with a     *)
(* limit equal to the configured TOP_K_RESULTS, and retrieves no more      *)
(* results than that setting.                                              *)
(***************************************************************************)
C21_LimitIsConfigured ==
    /\ \A k \in DOMAIN SearchCalls :
          SearchCalls[k].arg.limit = settings.TOP_K_RESULTS
    /\ Len(search_results) <= settings.TOP_K_RESULTS

(***************************************************************************)
(* C22, as stated: on every iteration of the loop of chunk_text the start  *)
(* of the window strictly increases, for every text, chunk_size > 0 and    *)
(* 0 <= overlap < chunk_size, so that the loop is left.                    *)
(***************************************************************************)
C22_StartAdvances == [][chunk_text_window => chunker'.start > chunker.start]_vars

\* the positions of chunker.text (from 1) that the chunk cut from window w
\* holds: those of text[w.start:w.end].strip()
ChunkPositions(w) ==
    LET a == PyIndex(Len(chunker.text), w.start)
        b == PyIndex(Len(chunker.text), w.end)
        solid == {p \in (a + 1)..b : ~IsSpace(chunker.text[p])}
    IN  IF solid = {} THEN {} ELSE SetMin(solid)..SetMax(solid)

\* the chunks of the windows, in order, without the empty ones
ChunksOfWindows ==
    SelectSeq([i \in DOMAIN chunker.windows |->
                  PyStrip(PySlice(chunker.text, chunker.windows[i].start,
                                  chunker.windows[i].end))],
              LAMBDA chunk : chunk # <<>>)

HoldsFile(t) ==
    tasks[t].pc \in {"process_document", "generate_embeddings", "add_documents",
                     "process_and_store_document_return",
                     "process_and_store_document_except"}

\* the entries of the collection that are built from the request's own
\* chunks, path and embeddings
OwnPoints(t) ==
    {p \in Range(collection) :
        \E i \in DOMAIN tasks[t].chunks :
            /\ i \in DOMAIN tasks[t].embeddings
            /\ p.payload.text = tasks[t].chunks[i]
            /\ p.payload.chunk_index = ChunkIndex(i)
            /\ p.payload.filename = Basename(Get(tasks[t].file_path))
            /\ p.vector = tasks[t].embeddings[i]}

(***************************************************************************)
(* C24: in every interleaving of two upload requests handled side by side, *)
(* the same original filename included, the requests have different        *)
(* temporary paths, the temporary file of a request exists until that      *)
(* request itself deletes it, and the entries of the collection are, for   *)
(* each request, the ones it upserted, built from its own chunks, path and *)
(* embeddings.                                                             *)
(***************************************************************************)
C24_UploadsAreIsolated ==
    /\ \A t, u \in DOMAIN tasks :
          (t # u /\ ~IsNone(tasks[t].file_path) /\ ~IsNone(tasks[u].file_path)) =>
              tasks[t].file_path # tasks[u].file_path
    /\ \A t \in DOMAIN tasks :
          /\ HoldsFile(t) => Get(tasks[t].file_path) \in files
          /\ Range(tasks[t].upserted) \subseteq OwnPoints(t)
          /\ \A u \in DOMAIN tasks :
                t # u => Range(tasks[t].upserted) \cap OwnPoints(u) = {}
    /\ tasks # <<>> =>
          /\ Range(collection) = UNION {Range(tasks[t].upserted) : t \in DOMAIN tasks}
          /\ Len(collection) = Cardinality(Range(collection))

C24_Witness ==
    /\ tasks # <<>>
    /\ \A t \in DOMAIN tasks :
          /\ ~IsNone(tasks[t].file)
          /\ Get(tasks[t].file).filename = <<"report", "txt">>
    /\ tasks[1].upserted # <<>>
    /\ tasks[1].pc = "done"
    /\ tasks[2].pc = "process_and_store_document_return"
    /\ collection[1] \in Range(tasks[2].upserted)

\* the request in flight is a POST /chat-with-file that brings a file
WithFile == request.endpoint = "/chat-with-file" /\ "file" \in DOMAIN request

\* call k of the request is one of query: the query embedding, the search or
\* the generation
IsQueryCall(k) ==
    IF calls[k].op = "embed_content"
    THEN calls[k].arg.task = "retrieval_query"
    ELSE calls[k].op \in {"search", "generate_content"}

\* before call k, process_and_store_document has upserted and gone on to
\* delete_file, after which it returns
IngestCompletedBefore(k) ==
    \E u, d \in 1..(k - 1) :
        /\ u < d
        /\ calls[u].op = "upsert"
        /\ calls[u].ok
        /\ calls[d].op = "delete_file"

\* the request is somewhere in query
InQuery ==
    pc \in {"query", "generate_query_embedding", "search", "generate_response",
            "generate_rag_response"}

\* what C25 says of a state
QueryFollowsIngest ==
    WithFile =>
        /\ \A k \in DOMAIN calls : IsQueryCall(k) => IngestCompletedBefore(k)
        /\ InQuery => IngestCompletedBefore(Len(calls) + 1)
        /\ (pc = "done" /\ ~IngestCompletedBefore(Len(calls) + 1)) =>
              /\ \A k \in DOMAIN calls : ~IsQueryCall(k)
              /\ Get(response).status >= 400

(***************************************************************************)
(* C25: in a POST /chat-with-file that brings a file, every call of query  *)
(* (query embedding, search, generation) comes after the ingest of the     *)
(* file has upserted and returned; a request whose ingest did not complete *)
(* makes none of these calls and ends in an error response; and no step of *)
(* a query, of /chat or of /chat-with-file, changes the collection.        *)
(***************************************************************************)
C25_QueryAfterIngest ==
    [][/\ QueryFollowsIngest'
       /\ InQuery => collection' = collection]_vars

C25_Witness ==
    /\ WithFile
    /\ pc = "done"
    /\ Get(response).status = 200
    /\ Get(result).has_context
    /\ \E k \in DOMAIN calls : IsQueryCall(k) /\ calls[k].op = "generate_content"
    /\ collection # collection0

====
